---- MODULE Spec2Model ----
(***************************************************************************)
(* Model of the Google Maps coordinate editor widget                       *)
(* (GoogleMapsEditor/ClientResources/googlemaps/Editor.js).                *)
(*                                                                         *)
(* The widget is single threaded: every action below is one turn of the    *)
(* browser event loop (a DOM event handler, a timer callback, or the part  *)
(* of an async function between two awaits).                               *)
(***************************************************************************)
EXTENDS Integers, Sequences, FiniteSets

(***************************************************************************)
(* Bounds of the model.                                                    *)
(***************************************************************************)
\* searches (_fetchAutocompleteSuggestions calls) that may be in flight at once
MaxSearches == 2
\* commits (_selectSuggestion calls awaiting fetchFields) in flight at once
MaxCommits == 1
\* timers the browser's timer table may hold at once
MaxTimers == 2
\* length of a non-empty provider response
MaxSuggestions == 2
\* events of the user and the host (value sets, clicks, keystrokes, destroy
\* calls) in one run
MaxEvents == 5
\* milliseconds that pass in one Tick
TickMs == 100

(***************************************************************************)
(* JavaScript values.  Every value is a record tagged with its type, so    *)
(* that values of different types can be compared.                         *)
(***************************************************************************)
Null == [t |-> "null"]
Undefined == [t |-> "undefined"]
NaN == [t |-> "NaN"]
Num(n) == [t |-> "number", n |-> n]
\* A string is kept as the list of its comma separated fields, which is what
\* String.prototype.split(',') returns; "" is the string with one empty field.
Str(fields) == [t |-> "string", parts |-> fields]
Obj(lat, lng) == [t |-> "object", latitude |-> lat, longitude |-> lng]
\* google.maps.LatLng: a pair of numbers
LatLng(lat, lng) == [lat |-> lat, lng |-> lng]

\* the numbers a coordinate may take in the model
Numbers == -180 .. 180

Digit == <<"0", "1", "2", "3", "4", "5", "6", "7", "8", "9">>

RECURSIVE NatToString(_)
NatToString(n) ==
    IF n < 10 THEN Digit[n + 1]
    ELSE NatToString(n \div 10) \o Digit[(n % 10) + 1]

\* a conversion that loses the sign of a number
NumberToStringUnsigned(x) ==
    IF x = NaN THEN "NaN"
    ELSE IF x.n < 0 THEN NatToString(-x.n) ELSE NatToString(x.n)

\* Number to string conversion, as done by  latitude + "," + longitude
NumberToString(x) ==
    IF x = NaN THEN "NaN"
    ELSE IF x.n < 0 THEN "-" \o NatToString(-x.n) ELSE NatToString(x.n)

\* parseFloat of a string: the number the string spells, NaN when it spells
\* none (the empty string, a word)
\* the spellings of the numbers, and the number each spells
NumberText == [n \in Numbers |-> NumberToString(Num(n))]
TextNumber ==
    [s \in {NumberText[n] : n \in Numbers} |-> CHOOSE n \in Numbers : NumberText[n] = s]

ParseString(s) ==
    IF s \in DOMAIN TextNumber THEN Num(TextNumber[s])
    ELSE NaN

\* parseFloat of a number: parseFloat converts its argument to a string first
ParseFloat(x) == ParseString(NumberToString(x))

\* JavaScript truthiness ( !x  is  ~Truthy(x) )
Truthy(x) ==
    CASE x.t = "null" -> FALSE
      [] x.t = "undefined" -> FALSE
      [] x.t = "NaN" -> FALSE
      [] x.t = "number" -> x.n # 0
      [] x.t = "string" -> x.parts # <<"">>
      [] x.t = "object" -> TRUE

\* the global isNaN(x): x converted to a number is NaN
IsNaN(x) ==
    CASE x.t = "null" -> FALSE
      [] x.t = "undefined" -> TRUE
      [] x.t = "NaN" -> TRUE
      [] x.t = "number" -> FALSE
      [] x.t = "string" -> ~(x.parts = <<"">> \/ (Len(x.parts) = 1 /\ ParseString(x.parts[1]) # NaN))
      [] x.t = "object" -> TRUE

\* property access  x.latitude / x.longitude  on a truthy value
Field(x, name) ==
    IF x.t = "object" THEN (IF name = "latitude" THEN x.latitude ELSE x.longitude)
    ELSE Undefined

(***************************************************************************)
(* Configuration supplied by the host form.                                *)
(***************************************************************************)
\* defaultCoordinates: the centre of a map that shows no value
defaultCoordinates == [latitude |-> Num(59), longitude |-> Num(18)]
\* defaultZoom, and the zoom a committed suggestion is shown at
defaultZoom == 5
commitZoom == 15
\* the debounce delay of the search box, in milliseconds
typingDelay == 200

(***************************************************************************)
(* The environment: what the user, the host and the provider may supply.   *)
(***************************************************************************)
\* texts of the search box
Texts == {"", "a", "ab"}
\* locations a right click on the map may report
ClickLocations == {LatLng(Num(40), Num(-73)), LatLng(Num(-33), Num(151))}
\* locations the detail fetch of a suggestion may resolve to
PlaceLocations == {LatLng(Num(48), Num(2)), LatLng(Num(0), Num(2))}
\* values the host form may set
HostValues ==
    { Null,
      Obj(Num(40), Num(-73)), Obj(Num(0), Num(0)), Obj(Null, Null),
      Obj(Num(40), Undefined), Obj(Num(0), Num(-73)),
      Str(<<"40", "-73">>), Str(<<"0", "0">>), Str(<<"a", "b">>), Str(<<"">>) }
\* a suggestion of the provider: its placePrediction is the k-th answer to a query
Suggestion(q, k) == [query |-> q, k |-> k]
\* the suggestion lists the provider may answer a query with
ProviderResults(q) ==
    { <<>>, [k \in 1 .. MaxSuggestions |-> Suggestion(q, k)] }

NoMap == [exists |-> FALSE]
NoMarker == [exists |-> FALSE]
NoDropdown == [exists |-> FALSE]
NoBurst == [typed |-> FALSE]
NoSuggestions == [isNull |-> TRUE]
Suggestions(list) == [isNull |-> FALSE, list |-> list]

VARIABLES
    readOnly,                 \* this.readOnly
    properties,               \* whether the host schema lists sub-properties
    started,                  \* this._started
    destroyed,                \* the inherited destroy has run
    value,                    \* this.value
    map,                      \* this._map: NoMap or [center, zoom]
    marker,                   \* this._marker: NoMarker or [position]
    searchText,               \* the text of this.searchTextbox
    typingTimer,              \* this._typingTimer: 0 (null) or a timer id
    timers,                   \* the browser's pending timers: [id, value, remaining]
    placesLibrary,            \* this._placesLibrary is set
    sessionToken,             \* this._sessionToken: 0 (null) or a token
    tokensCreated,            \* AutocompleteSessionToken objects constructed so far
    suggestions,              \* this._suggestions: NoSuggestions (null) or a list
    suggestionsDropdown,      \* this._suggestionsDropdown: NoDropdown or [display, items]
    selectedSuggestionIndex,  \* this._selectedSuggestionIndex
    searches,                 \* _fetchAutocompleteSuggestions calls suspended at an await
    commits,                  \* _selectSuggestion calls suspended at fetchFields
    events,                   \* user and host events so far
    burst,                    \* history: the last keystroke, the time since, the
                              \* keystrokes of its burst and the searches it led to
    commitToken,              \* history: the token held at the last successful
                              \* commit since the last clear
    sentToken,                \* history: the token of the last query sent since the
                              \* last clear or successful commit
    lastCommit                \* history: how the last finished commit ended

vars == << readOnly, properties, started, destroyed, value, map, marker,
           searchText, typingTimer, timers, placesLibrary, sessionToken,
           tokensCreated, suggestions, suggestionsDropdown, selectedSuggestionIndex,
           searches, commits, events, burst, commitToken, sentToken,
           lastCommit >>

NoLocation == [isNull |-> TRUE]
NoToken == 0
\* history: no successful commit since the last clear
NoCommit == [committed |-> FALSE]

\* the value, the map and the marker, as the coordinate methods pass them on
Surface == [value |-> value, map |-> map, marker |-> marker]

Remove(s, i) == SubSeq(s, 1, i - 1) \o SubSeq(s, i + 1, Len(s))

\* history: every commit in flight has been followed by a later action of the user
Overtake(cs) == [i \in DOMAIN cs |-> [cs[i] EXCEPT !.overtaken = TRUE]]

(***************************************************************************)
(* Coordinate methods.                                                     *)
(***************************************************************************)
\* _isComplexType(): called without an argument everywhere, so on this.value
IsComplexType(v) ==
    IF Truthy(v) /\ v.t = "object" THEN TRUE
    ELSE properties

\* a _hasCoordinates that does not treat 0 as the absence of a coordinate
HasCoordinatesZeroAllowed(v) ==
    IF ~Truthy(v) THEN FALSE
    ELSE IF IsComplexType(v)
         THEN /\ Field(v, "latitude") # Undefined
              /\ Field(v, "longitude") # Undefined
              /\ Field(v, "longitude") # Null
              /\ Field(v, "latitude") # Null
              /\ ~IsNaN(Field(v, "longitude"))
              /\ ~IsNaN(Field(v, "latitude"))
         ELSE IF v.t = "string" THEN Len(v.parts) = 2
         ELSE FALSE

\* _hasCoordinates()
HasCoordinates(v) ==
    IF ~Truthy(v) THEN FALSE
    ELSE IF IsComplexType(v)
         THEN /\ Field(v, "latitude") # Undefined
              /\ Field(v, "longitude") # Undefined
              /\ Field(v, "longitude") # Null
              /\ Field(v, "latitude") # Null
              /\ ~IsNaN(Field(v, "longitude"))
              /\ ~IsNaN(Field(v, "latitude"))
              /\ Field(v, "longitude") # Num(0)
              /\ Field(v, "latitude") # Num(0)
         ELSE IF v.t = "string" THEN Len(v.parts) = 2
         ELSE FALSE

\* isValid(), for a field whose this.required is the given flag (the flag is set
\* by the host and read nowhere else)
IsValid(required) ==
    IF required THEN HasCoordinates(value)
    ELSE TRUE

\* a _setMapLocation that never changes the zoom
SetMapLocationKeepZoom(w, location, zoom, center, skipMarker) ==
    IF w.map = NoMap THEN w
    ELSE [ value |-> w.value,
           marker |-> IF ~skipMarker THEN [exists |-> TRUE, position |-> location]
                      ELSE w.marker,
           map |-> [ exists |-> TRUE,
                     center |-> IF center THEN location ELSE w.map.center,
                     zoom |-> w.map.zoom ] ]

\* _setMapLocation(location, zoom, center, skipMarker); zoom 0 stands for null
SetMapLocation(w, location, zoom, center, skipMarker) ==
    IF w.map = NoMap THEN w
    ELSE [ value |-> w.value,
           marker |-> IF ~skipMarker THEN [exists |-> TRUE, position |-> location]
                      ELSE w.marker,
           map |-> [ exists |-> TRUE,
                     center |-> IF center THEN location ELSE w.map.center,
                     zoom |-> IF zoom # 0 THEN zoom ELSE w.map.zoom ] ]

\* _refreshMarkerLocation()
RefreshMarkerLocation(w) ==
    IF w.map = NoMap THEN w
    ELSE IF ~HasCoordinates(w.value)
         THEN SetMapLocation(w, LatLng(defaultCoordinates.latitude,
                                       defaultCoordinates.longitude), 0, TRUE, TRUE)
         ELSE IF IsComplexType(w.value)
              THEN SetMapLocation(w, LatLng(w.value.latitude, w.value.longitude),
                                  0, TRUE, FALSE)
              ELSE SetMapLocation(w, LatLng(ParseString(w.value.parts[1]),
                                            ParseString(w.value.parts[2])),
                                  0, TRUE, FALSE)

\* _setValueAttr(newValue): the inherited setter stores the value, then the
\* marker is refreshed only when no marker exists
SetValueAttr(w, newValue) ==
    LET stored == [w EXCEPT !.value = newValue]
    IN  IF stored.marker = NoMarker THEN RefreshMarkerLocation(stored)
        ELSE stored

\* _setCoordinatesValue(location)
SetCoordinatesValue(w, location) ==
    IF ~started THEN w
    ELSE IF location = NoLocation
         THEN SetValueAttr(w, IF IsComplexType(w.value) THEN Obj(Null, Null) ELSE Null)
         ELSE IF IsComplexType(w.value)
              THEN SetValueAttr(w, Obj(ParseFloat(location.lat), ParseFloat(location.lng)))
              ELSE SetValueAttr(w, Str(<< NumberToString(location.lat),
                                          NumberToString(location.lng) >>))

(***************************************************************************)
(* The suggestions dropdown.                                               *)
(***************************************************************************)
\* _hideSuggestionsDropdown(): the element after the call (the index becomes -1)
HideSuggestionsDropdown(dd) ==
    IF dd # NoDropdown THEN [dd EXCEPT !.display = "none"]
    ELSE dd

\* _createSuggestionsDropdown()
CreateSuggestionsDropdown(dd) ==
    IF dd # NoDropdown THEN dd
    ELSE [exists |-> TRUE, display |-> "none", items |-> <<>>]

\* _showSuggestionsDropdown(list): the element after the call (the index becomes -1)
ShowSuggestionsDropdown(dd, list) ==
    LET emptied == [CreateSuggestionsDropdown(dd) EXCEPT !.items = <<>>]
    IN  IF Len(list) = 0 THEN HideSuggestionsDropdown(emptied)
        ELSE [emptied EXCEPT !.items = list, !.display = "block"]

(***************************************************************************)
(* Initial state: the widget after postCreate, before startup, with the    *)
(* provider script not yet loaded.                                         *)
(***************************************************************************)
Init ==
    /\ readOnly \in BOOLEAN
    /\ properties \in BOOLEAN
    /\ started = FALSE
    /\ destroyed = FALSE
    /\ value = Null
    /\ map = NoMap
    /\ marker = NoMarker
    /\ searchText = ""
    /\ typingTimer = 0
    /\ timers = {}
    /\ placesLibrary = FALSE
    /\ sessionToken = NoToken
    /\ tokensCreated = 0
    /\ suggestions = NoSuggestions
    /\ suggestionsDropdown = NoDropdown
    /\ selectedSuggestionIndex = -1
    /\ searches = <<>>
    /\ commits = <<>>
    /\ events = 0
    /\ burst = NoBurst
    /\ commitToken = NoCommit
    /\ sentToken = NoToken
    /\ lastCommit = "none"

\* one more event of the user or the host
HostEvent ==
    /\ events < MaxEvents
    /\ events' = events + 1

\* one more event of the user: the host has started the widget (startup() follows
\* its construction) before the user can reach it
UserEvent ==
    /\ started
    /\ events < MaxEvents
    /\ events' = events + 1

(***************************************************************************)
(* Lifecycle.                                                              *)
(***************************************************************************)
\* startup(), inherited: the host starts the widget
Startup ==
    /\ ~started /\ ~destroyed
    /\ started' = TRUE
    /\ UNCHANGED << lastCommit, readOnly, properties, destroyed, value, map, marker,
                    searchText, typingTimer, timers, placesLibrary, sessionToken,
                    tokensCreated, suggestions, suggestionsDropdown,
                    selectedSuggestionIndex, searches, commits, events, burst,
                    commitToken,
                    sentToken >>

\* the "googleMapsScriptLoaded" listener: _createGoogleMapsElement(), then
\* _refreshMarkerLocation(); the listener removes itself
GoogleMapsScriptLoaded ==
    /\ map = NoMap /\ ~destroyed
    /\ LET created == [Surface EXCEPT !.map =
                          [ exists |-> TRUE,
                            center |-> LatLng(defaultCoordinates.latitude,
                                              defaultCoordinates.longitude),
                            zoom |-> defaultZoom ]]
           w == RefreshMarkerLocation(created)
       IN  /\ map' = w.map
           /\ marker' = w.marker
           /\ value' = w.value
    /\ UNCHANGED << lastCommit, readOnly, properties, started, destroyed,
                    searchText, typingTimer, timers, placesLibrary, sessionToken,
                    tokensCreated, suggestions, suggestionsDropdown,
                    selectedSuggestionIndex, searches, commits, events, burst,
                    commitToken,
                    sentToken >>

\* a destroy() that leaves the debounce timer running
DestroyKeepTimer ==
    /\ timers' = timers
    /\ typingTimer' = 0
    /\ suggestionsDropdown' = NoDropdown
    /\ sessionToken' = NoToken
    /\ suggestions' = NoSuggestions
    /\ placesLibrary' = FALSE
    /\ destroyed' = TRUE
    /\ HostEvent
    /\ UNCHANGED << lastCommit, readOnly, properties, started, value, map, marker,
                    searchText, tokensCreated, selectedSuggestionIndex, searches,
                    commits, burst, commitToken,
                    sentToken >>

\* destroy(); the inherited destroy removes every owned listener
Destroy ==
    /\ timers' = IF typingTimer # 0 THEN {tm \in timers : tm.id # typingTimer}
                 ELSE timers
    /\ typingTimer' = 0
    /\ suggestionsDropdown' = NoDropdown
    /\ sessionToken' = NoToken
    /\ suggestions' = NoSuggestions
    /\ placesLibrary' = FALSE
    /\ destroyed' = TRUE
    /\ HostEvent
    /\ UNCHANGED << lastCommit, readOnly, properties, started, value, map, marker,
                    searchText, tokensCreated, selectedSuggestionIndex, searches,
                    commits, burst, commitToken,
                    sentToken >>

(***************************************************************************)
(* The host sets a value.                                                  *)
(***************************************************************************)
\* set("value", newValue)
SetValue(newValue) ==
    /\ ~destroyed
    /\ HostEvent
    /\ LET w == SetValueAttr(Surface, newValue)
       IN  /\ value' = w.value
           /\ map' = w.map
           /\ marker' = w.marker
    /\ UNCHANGED << lastCommit, readOnly, properties, started, destroyed,
                    searchText, typingTimer, timers, placesLibrary, sessionToken,
                    tokensCreated, suggestions, suggestionsDropdown,
                    selectedSuggestionIndex, searches, commits, burst, commitToken,
                    sentToken >>

(***************************************************************************)
(* Map and icon events.                                                    *)
(***************************************************************************)
\* the "rightclick" listener of the map
RightClick(latLng) ==
    /\ map # NoMap /\ ~readOnly /\ ~destroyed
    /\ UserEvent
    /\ LET w == SetCoordinatesValue(SetMapLocation(Surface, latLng, 0, FALSE, FALSE),
                                    latLng)
       IN  /\ value' = w.value
           /\ map' = w.map
           /\ marker' = w.marker
    /\ commits' = Overtake(commits)
    /\ UNCHANGED << lastCommit, readOnly, properties, started, destroyed,
                    searchText, typingTimer, timers, placesLibrary, sessionToken,
                    tokensCreated, suggestions, suggestionsDropdown,
                    selectedSuggestionIndex, searches, burst,
                    commitToken,
                    sentToken >>

\* the click listener of the clear icon: _clearCoordinates()
ClearCoordinates ==
    /\ ~destroyed
    /\ UserEvent
    /\ searchText' = ""
    /\ suggestionsDropdown' = HideSuggestionsDropdown(suggestionsDropdown)
    /\ selectedSuggestionIndex' = -1
    /\ LET w == SetCoordinatesValue([Surface EXCEPT !.marker = NoMarker], NoLocation)
       IN  /\ value' = w.value
           /\ map' = w.map
           /\ marker' = w.marker
    /\ commitToken' = NoCommit
    /\ sentToken' = NoToken
    /\ commits' = Overtake(commits)
    /\ UNCHANGED << lastCommit, readOnly, properties, started, destroyed,
                    typingTimer, timers, placesLibrary, sessionToken,
                    tokensCreated, suggestions, searches, burst >>

(***************************************************************************)
(* The search box: debounce, search, suggestions.                          *)
(***************************************************************************)
\* clearTimeout(id)
ClearTimeout(table, id) == {tm \in table : tm.id # id}

\* the id setTimeout returns: one that no pending timer and no kept handle has
FreeTimerIds(table) ==
    {id \in 1 .. (MaxTimers + 1) : id # typingTimer /\ \A tm \in table : tm.id # id}

\* the rest of the "keyup" listener, once the pending timer has been dealt with
StartTypingTimer(text, table) ==
    /\ map # NoMap /\ ~readOnly /\ ~destroyed
    /\ UserEvent
    /\ Cardinality(table) < MaxTimers
    /\ FreeTimerIds(table) # {}
    /\ LET id == CHOOSE i \in FreeTimerIds(table) : \A j \in FreeTimerIds(table) : i <= j
       IN  /\ typingTimer' = id
           /\ timers' = table \cup {[id |-> id, value |-> text, remaining |-> typingDelay]}
    /\ searchText' = text
    /\ burst' = [ typed |-> TRUE, text |-> text, elapsed |-> 0,
                  keys |-> IF burst # NoBurst /\ burst.elapsed < typingDelay
                           THEN burst.keys + 1 ELSE 1,
                  searches |-> 0 ]
    /\ UNCHANGED << lastCommit, readOnly, properties, started, destroyed, value, map,
                    marker, placesLibrary, sessionToken, tokensCreated, suggestions,
                    suggestionsDropdown, selectedSuggestionIndex, searches, commits,
                    commitToken,
                    sentToken >>

\* a keyup listener that starts a timer and leaves the pending one running
KeyupNoClear(text) ==
    StartTypingTimer(text, timers)

\* the "keyup" listener of the search box, with the text the box holds
Keyup(text) ==
    StartTypingTimer(text, IF typingTimer # 0 THEN ClearTimeout(timers, typingTimer)
                           ELSE timers)

\* time passes
Tick ==
    /\ \/ \E tm \in timers : tm.remaining > 0
       \/ burst # NoBurst /\ burst.elapsed < typingDelay
    /\ timers' = { [tm EXCEPT !.remaining = IF @ > TickMs THEN @ - TickMs ELSE 0] :
                   tm \in timers }
    /\ burst' = IF burst = NoBurst THEN burst
                ELSE [burst EXCEPT !.elapsed = IF @ + TickMs < typingDelay
                                               THEN @ + TickMs ELSE typingDelay]
    /\ UNCHANGED << lastCommit, readOnly, properties, started, destroyed, value, map,
                    marker, searchText, typingTimer, placesLibrary, sessionToken,
                    tokensCreated, suggestions, suggestionsDropdown,
                    selectedSuggestionIndex, searches, commits, events, commitToken,
                    sentToken >>

\* the session token after  if (!this._sessionToken) this._sessionToken = new ...
TokenAfterCreate == IF sessionToken = NoToken THEN tokensCreated + 1 ELSE sessionToken
TokensAfterCreate == IF sessionToken = NoToken THEN tokensCreated + 1 ELSE tokensCreated

\* history: every search in flight has been followed by a newer one
MarkStale(ss) == [i \in DOMAIN ss |-> [ss[i] EXCEPT !.stale = TRUE]]

\* _fetchAutocompleteSuggestions(input), up to its first suspension: at
\* importLibrary when the places library is not cached, else at the query
FetchAutocompleteSuggestions(input) ==
    IF input = ""
    THEN /\ suggestionsDropdown' = HideSuggestionsDropdown(suggestionsDropdown)
         /\ selectedSuggestionIndex' = -1
         /\ UNCHANGED << searches, sessionToken, tokensCreated, sentToken >>
    ELSE /\ Len(searches) < MaxSearches
         /\ IF placesLibrary
            THEN /\ sessionToken' = TokenAfterCreate
                 /\ tokensCreated' = TokensAfterCreate
                 /\ searches' = Append(MarkStale(searches),
                                       [ input |-> input, stage |-> "fetch",
                                         token |-> TokenAfterCreate, stale |-> FALSE,
                                         sinceCommit |-> commitToken ])
                 /\ sentToken' = TokenAfterCreate
            ELSE /\ searches' = Append(MarkStale(searches),
                                       [ input |-> input, stage |-> "import",
                                         token |-> NoToken, stale |-> FALSE,
                                         sinceCommit |-> commitToken ])
                 /\ UNCHANGED << sessionToken, tokensCreated, sentToken >>
         /\ UNCHANGED << suggestionsDropdown, selectedSuggestionIndex >>

\* the debounce timer fires: its callback calls _fetchAutocompleteSuggestions
TimerFire(id) ==
    \E tm \in timers :
        /\ tm.id = id
        /\ tm.remaining = 0
        /\ timers' = timers \ {tm}
        /\ burst' = IF burst = NoBurst THEN burst
                    ELSE [burst EXCEPT !.searches = @ + 1]
        /\ FetchAutocompleteSuggestions(tm.value)
        /\ UNCHANGED << lastCommit, readOnly, properties, started, destroyed, value,
                        map, marker, searchText, typingTimer, placesLibrary,
                        suggestions, commits, events, commitToken >>

\* importLibrary('places') resolves: _getPlacesLibrary caches it, and the search
\* goes on to its query
ImportResolve(i) ==
    /\ i \in DOMAIN searches
    /\ searches[i].stage = "import"
    /\ placesLibrary' = TRUE
    /\ sessionToken' = TokenAfterCreate
    /\ tokensCreated' = TokensAfterCreate
    /\ searches' = [searches EXCEPT ![i].stage = "fetch", ![i].token = TokenAfterCreate]
    /\ sentToken' = TokenAfterCreate
    /\ UNCHANGED << lastCommit, readOnly, properties, started, destroyed, value, map,
                    marker, searchText, typingTimer, timers, suggestions,
                    suggestionsDropdown, selectedSuggestionIndex, commits, events,
                    burst, commitToken >>

\* fetchAutocompleteSuggestions resolves with a list
FetchResolve(i, list) ==
    /\ i \in DOMAIN searches
    /\ searches[i].stage = "fetch"
    /\ list \in ProviderResults(searches[i].input)
    /\ suggestions' = Suggestions(list)
    /\ suggestionsDropdown' = ShowSuggestionsDropdown(suggestionsDropdown, list)
    /\ selectedSuggestionIndex' = -1
    /\ searches' = Remove(searches, i)
    /\ UNCHANGED << lastCommit, readOnly, properties, started, destroyed, value, map,
                    marker, searchText, typingTimer, timers, placesLibrary,
                    sessionToken, tokensCreated, commits, events, burst, commitToken,
                    sentToken >>

\* importLibrary or the query rejects: the catch block logs the error
SearchReject(i) ==
    /\ i \in DOMAIN searches
    /\ searches' = Remove(searches, i)
    /\ UNCHANGED << lastCommit, readOnly, properties, started, destroyed, value, map,
                    marker, searchText, typingTimer, timers, placesLibrary,
                    sessionToken, tokensCreated, suggestions, suggestionsDropdown,
                    selectedSuggestionIndex, commits, events, burst, commitToken,
                    sentToken >>

\* the capturing click listener of the document, for a click outside the search
\* box and the dropdown
OutsideClick ==
    /\ map # NoMap /\ ~readOnly /\ ~destroyed
    /\ UserEvent
    /\ suggestionsDropdown # NoDropdown
    /\ suggestionsDropdown' = HideSuggestionsDropdown(suggestionsDropdown)
    /\ selectedSuggestionIndex' = -1
    /\ UNCHANGED << lastCommit, readOnly, properties, started, destroyed, value, map,
                    marker, searchText, typingTimer, timers, placesLibrary,
                    sessionToken, tokensCreated, suggestions, searches, commits,
                    burst, commitToken,
                    sentToken >>

\* the items of the dropdown the user can point at
VisibleItems ==
    IF suggestionsDropdown # NoDropdown /\ suggestionsDropdown.display = "block"
    THEN 0 .. (Len(suggestionsDropdown.items) - 1)
    ELSE {}

\* the "mouseenter" listener of an item: _highlightSuggestion(index)
HighlightSuggestion(index) ==
    /\ ~destroyed
    /\ UserEvent
    /\ index \in VisibleItems
    /\ selectedSuggestionIndex' = index
    /\ UNCHANGED << lastCommit, readOnly, properties, started, destroyed, value, map,
                    marker, searchText, typingTimer, timers, placesLibrary,
                    sessionToken, tokensCreated, suggestions, suggestionsDropdown,
                    searches, commits, burst, commitToken,
                    sentToken >>

\* the "click" listener of an item: _selectSuggestion(index), up to fetchFields
SelectSuggestion(index) ==
    /\ ~destroyed
    /\ UserEvent
    /\ index \in VisibleItems
    /\ Len(commits) < MaxCommits
    /\ IF suggestions = NoSuggestions \/ index < 0 \/ index >= Len(suggestions.list)
       THEN UNCHANGED commits
       ELSE commits' = Append(Overtake(commits),
                              [ suggestion |-> suggestions.list[index + 1],
                                overtaken |-> FALSE ])
    /\ UNCHANGED << lastCommit, readOnly, properties, started, destroyed, value, map,
                    marker, searchText, typingTimer, timers, placesLibrary,
                    sessionToken, tokensCreated, suggestions, suggestionsDropdown,
                    selectedSuggestionIndex, searches, burst, commitToken,
                    sentToken >>

\* a commit that ends the session: as CommitResolve, but a success drops the token
CommitResolveReset(i, location) ==
    /\ i \in DOMAIN commits
    /\ commits' = Remove(commits, i)
    /\ lastCommit' = IF location = NoLocation THEN "failed" ELSE "done"
    /\ IF location = NoLocation
       THEN UNCHANGED << value, map, marker, searchText, suggestionsDropdown,
                         selectedSuggestionIndex, commitToken, sentToken,
                         sessionToken >>
       ELSE /\ LET w == SetCoordinatesValue(
                            SetMapLocation(Surface, location, commitZoom, TRUE, FALSE),
                            location)
               IN  /\ value' = w.value
                   /\ map' = w.map
                   /\ marker' = w.marker
            /\ searchText' = ""
            /\ suggestionsDropdown' = HideSuggestionsDropdown(suggestionsDropdown)
            /\ selectedSuggestionIndex' = -1
            /\ commitToken' = [committed |-> TRUE, token |-> sessionToken]
            /\ sentToken' = NoToken
            /\ sessionToken' = NoToken
    /\ UNCHANGED << readOnly, properties, started, destroyed, typingTimer,
                    timers, placesLibrary, tokensCreated, suggestions,
                    searches, events, burst >>

\* fetchFields resolves; location is place.location, NoLocation when it is unset
CommitResolve(i, location) ==
    /\ i \in DOMAIN commits
    /\ commits' = Remove(commits, i)
    /\ lastCommit' = IF location = NoLocation THEN "failed" ELSE "done"
    /\ IF location = NoLocation
       THEN UNCHANGED << value, map, marker, searchText, suggestionsDropdown,
                         selectedSuggestionIndex, commitToken, sentToken >>
       ELSE /\ LET w == SetCoordinatesValue(
                            SetMapLocation(Surface, location, commitZoom, TRUE, FALSE),
                            location)
               IN  /\ value' = w.value
                   /\ map' = w.map
                   /\ marker' = w.marker
            /\ searchText' = ""
            /\ suggestionsDropdown' = HideSuggestionsDropdown(suggestionsDropdown)
            /\ selectedSuggestionIndex' = -1
            /\ commitToken' = [committed |-> TRUE, token |-> sessionToken]
            /\ sentToken' = NoToken
    /\ UNCHANGED << readOnly, properties, started, destroyed, typingTimer,
                    timers, placesLibrary, sessionToken, tokensCreated, suggestions,
                    searches, events, burst >>

\* a catch block that also closes the dropdown and empties the search box
CommitRejectClosing(i) ==
    /\ i \in DOMAIN commits
    /\ commits' = Remove(commits, i)
    /\ lastCommit' = "failed"
    /\ searchText' = ""
    /\ suggestionsDropdown' = HideSuggestionsDropdown(suggestionsDropdown)
    /\ selectedSuggestionIndex' = -1
    /\ UNCHANGED << readOnly, properties, started, destroyed, value, map,
                    marker, typingTimer, timers, placesLibrary,
                    sessionToken, tokensCreated, suggestions,
                    searches, events, burst, commitToken,
                    sentToken >>

\* fetchFields rejects: the catch block logs the error
CommitReject(i) ==
    /\ i \in DOMAIN commits
    /\ commits' = Remove(commits, i)
    /\ lastCommit' = "failed"
    /\ UNCHANGED << readOnly, properties, started, destroyed, value, map,
                    marker, searchText, typingTimer, timers, placesLibrary,
                    sessionToken, tokensCreated, suggestions, suggestionsDropdown,
                    selectedSuggestionIndex, searches, events, burst, commitToken,
                    sentToken >>

Next ==
    \/ Startup
    \/ GoogleMapsScriptLoaded
    \/ Destroy
    \/ \E v \in HostValues : SetValue(v)
    \/ \E l \in ClickLocations : RightClick(l)
    \/ ClearCoordinates
    \/ \E t \in Texts : Keyup(t)
    \/ Tick
    \/ \E id \in 1 .. (MaxTimers + 1) : TimerFire(id)
    \/ \E i \in 1 .. MaxSearches : ImportResolve(i)
    \/ \E i \in 1 .. MaxSearches, l \in UNION {ProviderResults(q) : q \in Texts} : FetchResolve(i, l)
    \/ \E i \in 1 .. MaxSearches : SearchReject(i)
    \/ OutsideClick
    \/ \E k \in 0 .. (MaxSuggestions - 1) : HighlightSuggestion(k)
    \/ \E k \in 0 .. (MaxSuggestions - 1) : SelectSuggestion(k)
    \/ \E i \in 1 .. MaxCommits, l \in PlaceLocations \cup {NoLocation} : CommitResolve(i, l)
    \/ \E i \in 1 .. MaxCommits : CommitReject(i)

Spec == Init /\ [][Next]_vars

(***************************************************************************)
(* Claims.                                                                 *)
(***************************************************************************)
AllResults == UNION {ProviderResults(q) : q \in Texts}

\* C1: a search response that arrives after a newer search has been issued is
\* discarded: it does not replace the list another query has produced, and it
\* leaves the dropdown as it is.
StaleResponseDiscarded ==
    [][\A i \in 1 .. MaxSearches, l \in AllResults :
          ( /\ i \in DOMAIN searches
            /\ searches[i].stale
            /\ suggestions # NoSuggestions
            /\ suggestions.list # <<>>
            /\ suggestions.list[1].query # searches[i].input
            /\ FetchResolve(i, l) )
              => UNCHANGED << suggestions, suggestionsDropdown >>]_vars

\* C2: debounce.  At most one timer is pending; a keystroke whose search has not
\* been issued yet has exactly one timer pending, carrying its text and due
\* typingDelay after it; a search is issued only by the timer of the last
\* keystroke, with that keystroke's text, no earlier than typingDelay after it;
\* no keystroke leads to more than one search.
DebounceState ==
    /\ Cardinality(timers) <= 1
    /\ burst # NoBurst => burst.searches <= 1
    /\ (burst # NoBurst /\ burst.searches = 0 /\ ~destroyed)
           => timers = {[ id |-> typingTimer, value |-> burst.text,
                          remaining |-> typingDelay - burst.elapsed ]}
    /\ (burst # NoBurst /\ burst.searches = 1) => timers = {}

DebounceContract ==
    [][ /\ DebounceState'
        /\ \A tm \in timers :
              TimerFire(tm.id) => /\ burst # NoBurst
                                  /\ tm.value = burst.text
                                  /\ burst.elapsed >= typingDelay
                                  /\ burst.searches = 0 ]_vars

\* C2 witness: a burst of two keystrokes has led to one search, for the text of
\* the second keystroke
DebounceWitness ==
    /\ burst # NoBurst
    /\ burst.keys >= 2
    /\ burst.searches = 1
    /\ burst.text = "ab"
    /\ \E i \in DOMAIN searches : searches[i].input = "ab"
    /\ Len(searches) = 1

\* C3: once destroy() has run, no step changes the suggestion list, the session
\* token, the cached places library, the dropdown, the value or the marker.
NoMutationAfterDestroy ==
    [][destroyed => UNCHANGED << suggestions, sessionToken, placesLibrary,
                                 suggestionsDropdown, value, marker >>]_vars

\* C4: once the map exists, a marker exists if and only if the value has
\* coordinates; a value without coordinates leaves no marker on the map.
MarkerInvariant ==
    map # NoMap => (marker # NoMarker <=> HasCoordinates(value))

\* C5: two consecutive queries with no successful commit and no clear between
\* them carry the same session token.
TokenReuse ==
    [][(sentToken # NoToken /\ sentToken' # NoToken) => sentToken' = sentToken]_vars

\* C6: the clear action leaves the session token null.
TokenResetOnClear ==
    [][ClearCoordinates => sessionToken' = NoToken]_vars

DestroyIdempotent ==
    [][(destroyed /\ Destroy)
          => UNCHANGED << timers, typingTimer, suggestionsDropdown >>]_vars

\* the coordinate pair a value spells: the fields of a structured value, the
\* two parsed fields of a delimited string in an editor of the delimited format
CoordinatePair(v) ==
    IF v.t = "object" THEN << v.latitude, v.longitude >>
    ELSE IF v.t = "string" /\ ~properties /\ Len(v.parts) = 2
         THEN << ParseString(v.parts[1]), ParseString(v.parts[2]) >>
         ELSE << Undefined, Undefined >>

\* both coordinates present, numeric and non-zero
ValidCoordinates(v) ==
    /\ CoordinatePair(v)[1].t = "number" /\ CoordinatePair(v)[1].n # 0
    /\ CoordinatePair(v)[2].t = "number" /\ CoordinatePair(v)[2].n # 0

\* C9: no marker exists before the map does, and the step that creates the map
\* renders the stored value: a marker at its coordinates when they are valid,
\* else no marker and the map centred on the default coordinates.
ReadyRendersStoredValue ==
    [][ /\ map' = NoMap => marker' = NoMarker
        /\ (map = NoMap /\ map' # NoMap) =>
              IF ValidCoordinates(value')
              THEN /\ marker' # NoMarker
                   /\ marker'.position = LatLng(CoordinatePair(value')[1],
                                                CoordinatePair(value')[2])
                   /\ map'.center = marker'.position
              ELSE /\ marker' = NoMarker
                   /\ map'.center = LatLng(defaultCoordinates.latitude,
                                           defaultCoordinates.longitude) ]_vars

\* C10: isValid() is false exactly when the field is required and the value has
\* no valid coordinates.
ValidationContract ==
    \A required \in BOOLEAN :
        IsValid(required) <=> ~(required /\ ~ValidCoordinates(value))

\* C11: a value counts as having coordinates only when both coordinates are
\* present, numeric and non-zero, in the delimited format as in the structured
\* one; a value without valid coordinates makes a required field invalid.
CoordinateValidity ==
    ~ValidCoordinates(value) => (~HasCoordinates(value) /\ ~IsValid(TRUE))

\* a structured value in which a coordinate is 0, null or missing
ZeroObject(v) ==
    /\ v.t = "object"
    /\ \/ v.latitude \in {Num(0), Null, Undefined}
       \/ v.longitude \in {Num(0), Null, Undefined}

\* C12: a structured value in which either coordinate is 0, null or missing has
\* no coordinates: a required field holding it is invalid, and rendering it (when
\* the host sets it, or when the map is created while it is stored) creates no
\* marker.
ZeroSentinel ==
    [][ ZeroObject(value')
           => /\ ~HasCoordinates(value')
              /\ ~IsValid(TRUE)'
              /\ ( /\ marker = NoMarker
                   /\ \/ GoogleMapsScriptLoaded
                      \/ \E v \in HostValues : SetValue(v) )
                     => marker' = NoMarker ]_vars

\* C12 witness: the map shows the structured value {0, 0} with no marker
ZeroSentinelWitness ==
    /\ map # NoMap
    /\ value = Obj(Num(0), Num(0))
    /\ marker = NoMarker
    /\ ~IsValid(TRUE)

\* the point _refreshMarkerLocation parses out of an external value
ParsePoint(v) ==
    RefreshMarkerLocation(
        [ value |-> v, marker |-> NoMarker,
          map |-> [ exists |-> TRUE, zoom |-> defaultZoom,
                    center |-> LatLng(defaultCoordinates.latitude,
                                      defaultCoordinates.longitude) ] ]).marker.position

\* the external value _setCoordinatesValue serializes a point to, in the format of
\* an editor that holds the value v
SerializePoint(v, point) ==
    SetCoordinatesValue([value |-> v, marker |-> NoMarker, map |-> NoMap], point).value

ClearResult ==
    [][ (HasCoordinates(value) /\ ClearCoordinates)
           => /\ marker' = NoMarker
              /\ value' = IF IsComplexType(value) THEN Obj(Null, Null)
                          ELSE Str(<<"">>) ]_vars

\* the state a successful commit of location l leaves, as C15 describes it: the
\* value is the point in the editor's format, a required field is valid, the
\* marker is at the point, the map is centred on it at zoom 15, the search text
\* is empty and the dropdown is closed
Committed(l) ==
    /\ value' = IF IsComplexType(value) THEN Obj(l.lat, l.lng)
                ELSE Str(<< NumberToString(l.lat), NumberToString(l.lng) >>)
    /\ IsValid(TRUE)'
    /\ marker' = [exists |-> TRUE, position |-> l]
    /\ map'.center = l
    /\ map'.zoom = 15
    /\ searchText' = ""
    /\ suggestionsDropdown' # NoDropdown => suggestionsDropdown'.display = "none"

\* C15 as stated: a commit whose detail fetch resolves to any location (lat, lng)
\* leaves the committed state.
CommitResult ==
    [][ \A i \in 1 .. MaxCommits, l \in PlaceLocations :
            CommitResolve(i, l) => Committed(l) ]_vars

\* C15 amended: a commit whose detail fetch resolves to a location with both
\* coordinates non-zero leaves the committed state.
CommitResultNonZero ==
    [][ \A i \in 1 .. MaxCommits, l \in PlaceLocations :
            (l.lat # Num(0) /\ l.lng # Num(0) /\ CommitResolve(i, l))
                => Committed(l) ]_vars

\* C15 witness: a commit has left its point as the value, with the marker on it
\* and the map at zoom 15
CommitResultWitness ==
    /\ value \in {Obj(Num(48), Num(2)), Str(<<"48", "2">>)}
    /\ marker = [exists |-> TRUE, position |-> LatLng(Num(48), Num(2))]
    /\ map # NoMap
    /\ map.center = LatLng(Num(48), Num(2))
    /\ map.zoom = commitZoom
    /\ searchText = ""
    /\ suggestionsDropdown # NoDropdown
    /\ suggestionsDropdown.display = "none"
    /\ suggestions # NoSuggestions

\* C16: a commit whose detail fetch fails, or resolves without a location, leaves
\* the value, the marker, the map view, the search text, the suggestion list, the
\* session token and the dropdown as they were, and every item the dropdown
\* shows can still be picked.
FailedCommit ==
    [][ \A i \in 1 .. MaxCommits :
            (CommitReject(i) \/ CommitResolve(i, NoLocation))
                => /\ UNCHANGED << value, marker, map, searchText, suggestions,
                                   sessionToken, suggestionsDropdown,
                                   selectedSuggestionIndex >>
                   /\ \A k \in VisibleItems' :
                          /\ suggestions' # NoSuggestions
                          /\ k < Len(suggestions'.list) ]_vars

\* C16 witness: a commit has failed, no commit is in flight, and the dropdown
\* still shows the suggestions
FailedCommitWitness ==
    /\ lastCommit = "failed"
    /\ commits = <<>>
    /\ suggestions # NoSuggestions
    /\ suggestions.list # <<>>
    /\ suggestionsDropdown # NoDropdown
    /\ suggestionsDropdown.display = "block"
    /\ suggestionsDropdown.items = suggestions.list
    /\ searchText # ""

\* C17: after a search fails (the places library cannot be acquired, or the
\* query fails) the suggestion list is empty and the dropdown is closed, whatever
\* an earlier search had left.
FailedSearch ==
    [][ \A i \in 1 .. MaxSearches :
            SearchReject(i)
                => /\ suggestions' \in {NoSuggestions, Suggestions(<<>>)}
                   /\ suggestionsDropdown' # NoDropdown
                          => suggestionsDropdown'.display = "none" ]_vars

\* C18: while the map exists, after the host sets a value with valid coordinates
\* the marker is at the coordinates of that value, also when a marker existed at
\* another position before.
ExternalSetRendered ==
    [][ \A v \in HostValues :
            (map # NoMap /\ ValidCoordinates(v) /\ SetValue(v))
                => /\ marker' # NoMarker
                   /\ marker'.position
                          = LatLng(CoordinatePair(v)[1], CoordinatePair(v)[2]) ]_vars

\* C19: the clear action leaves the suggestion list empty, the highlighted index
\* -1 and the dropdown closed.
ClearResetsSession ==
    [][ ClearCoordinates
           => /\ suggestions' \in {NoSuggestions, Suggestions(<<>>)}
              /\ selectedSuggestionIndex' = -1
              /\ suggestionsDropdown' # NoDropdown
                     => suggestionsDropdown'.display = "none" ]_vars

\* the highlighted index is -1 or an index into the current suggestion list
HighlightInRange ==
    \/ selectedSuggestionIndex = -1
    \/ /\ suggestions # NoSuggestions
       /\ selectedSuggestionIndex \in 0 .. (Len(suggestions.list) - 1)

\* C20: in every state, also after destroy(), the highlighted index is -1 or a
\* valid index into the current suggestion list, and it is -1 right after the
\* list has been replaced.
HighlightedIndexValid ==
    [][ /\ HighlightInRange'
        /\ suggestions' # suggestions => selectedSuggestionIndex' = -1 ]_vars

\* importLibrary('places') calls the state shows: those still awaited, and the
\* one whose result is cached
ImportCalls ==
    Cardinality({i \in DOMAIN searches : searches[i].stage = "import"})
        + (IF placesLibrary THEN 1 ELSE 0)

\* C21: the places library is acquired at most once in an editor's lifetime, for
\* any interleaving of searches: no state shows more than one importLibrary call.
ImportOnce == ImportCalls <= 1

\* C22: the format the editor serializes to (structured when _isComplexType()
\* holds, else delimited) is the same in every state: no step changes it.
FormatFixed ==
    [][ IsComplexType(value)' = IsComplexType(value) ]_vars

\* C23: destroy() cancels the pending debounce timer and leaves the session token
\* null and the suggestion list cleared; no timer is pending in a destroyed
\* widget, so no search is issued after destroy.
DestroyCancelsTimer ==
    [][ /\ Destroy => /\ typingTimer' = 0
                      /\ sessionToken' = NoToken
                      /\ suggestions' = NoSuggestions
        /\ destroyed' => timers' = {}
        /\ destroyed => Len(searches') <= Len(searches) ]_vars

\* C23 witness: the widget was destroyed after a keystroke and before its timer
\* fired; the delay has passed and no search has been issued
DestroyCancelsTimerWitness ==
    /\ destroyed
    /\ burst # NoBurst
    /\ burst.text # ""
    /\ burst.elapsed >= typingDelay
    /\ burst.searches = 0
    /\ searches = <<>>
    /\ timers = {}
    /\ sessionToken = NoToken
    /\ suggestions = NoSuggestions

\* C24: in a read-only editor no user action (a right-click on the map, a
\* keystroke in the search box, picking a suggestion and its commit, a click on
\* the clear icon) changes the value or the marker.
ReadOnlyFrozen ==
    [][ ( /\ readOnly
          /\ \/ ClearCoordinates
             \/ \E l \in ClickLocations : RightClick(l)
             \/ \E t \in Texts : Keyup(t)
             \/ \E k \in 0 .. (MaxSuggestions - 1) : SelectSuggestion(k)
             \/ \E i \in 1 .. MaxCommits, l \in PlaceLocations : CommitResolve(i, l) )
            => UNCHANGED << value, marker >> ]_vars

\* C25: a commit whose detail fetch resolves after a later action of the user
\* (a clear, a right-click, the pick of another suggestion) leaves the value and
\* the marker as that action left them.
LateCommitDiscarded ==
    [][ \A i \in 1 .. MaxCommits, l \in PlaceLocations :
            ( /\ i \in DOMAIN commits
              /\ commits[i].overtaken
              /\ CommitResolve(i, l) )
                => UNCHANGED << value, marker >> ]_vars

====
